---- MODULE Spec2Model ----
(***************************************************************************)
(* Model of src/app.py: the recommendation pipeline of the Chitra movie    *)
(* recommender.  One button click runs get_movie_recommendations (a retry  *)
(* loop around one POST to the LLM provider, clean-up and parsing of the   *)
(* generated text, one get_tmdb_movie_details lookup per recommendation)   *)
(* and then the render loop of the page.                                   *)
(*                                                                         *)
(* Block structure of lines 138-175.  The indentation of the file is not   *)
(* consistent there: the else of line 158 and the except of line 163 sit   *)
(* left of the blocks they close.  The model follows the pairing that the  *)
(* comments of the file give: the else of line 158 closes the              *)
(* "if 'recommendations' in ..." of line 141 (so the return of line 157    *)
(* is the last statement of that if), the except of line 163 closes the    *)
(* innermost try of line 138 ("for api_content parsing"), the else of      *)
(* line 171 closes the "if 'choices' in ..." of line 129, and a failure    *)
(* of response.json() (line 122) is handled at line 181 ("for              *)
(* response.json() parsing").                                              *)
(***************************************************************************)
EXTENDS Integers, Sequences, FiniteSets, TLC

(***************************************************************************)
(* Texts.  A text is a sequence of symbols.  "BQ" is one backtick (back    *)
(* quote), "json" the four letters json, " " a blank and "\n" a newline;   *)
(* "a" and "b" are ordinary letters.  The remaining symbols are JSON       *)
(* lexemes that hold no backtick, no blank and no letter run "json":       *)
(*   "{R["   {"recommendations":[          "]}"    ]}                      *)
(*   "{"     start of an element object    "}"     its end                 *)
(*   "title" "description" "reasoning"     a key; the letters, blanks and  *)
(*           backticks after it, up to the next key or "}", are its string *)
(*           value                                                         *)
(*   "S"     an element that is a JSON string, not an object               *)
(*   "{}"    an object without a recommendations key                       *)
(*   "{R:0}" {"recommendations":0}         "0"     the JSON number 0       *)
(***************************************************************************)
Whitespace == {" ", "\n"}
StrChars == {"a", "b", "BQ", "json", " "}
KeyToks == {"title", "description", "reasoning"}

(* Python's None where a text may stand, and where a dict may stand *)
NoneText == <<"None">>
NoneDict == [py |-> "None"]
(* {} *)
EmptyDict == [k \in {} |-> NoneText]

(* str.replace(old, ""): every occurrence of old, left to right, is dropped *)
RECURSIVE Replace(_, _)
Replace(s, old) ==
    IF Len(s) < Len(old) THEN s
    ELSE IF SubSeq(s, 1, Len(old)) = old
         THEN Replace(SubSeq(s, Len(old) + 1, Len(s)), old)
         ELSE <<Head(s)>> \o Replace(Tail(s), old)

RECURSIVE LStrip(_)
LStrip(s) == IF s # <<>> /\ Head(s) \in Whitespace THEN LStrip(Tail(s)) ELSE s

RECURSIVE RStrip(_)
RStrip(s) ==
    IF s # <<>> /\ s[Len(s)] \in Whitespace THEN RStrip(SubSeq(s, 1, Len(s) - 1)) ELSE s

(* str.strip() *)
Strip(s) == RStrip(LStrip(s))

(* line 136: api_content.replace(BQ + "json", "").replace(BQ, "").strip() *)
CleanUp(s) == Strip(Replace(Replace(s, <<"BQ", "json">>), <<"BQ">>))

(***************************************************************************)
(* json.loads on a text.  The result is [ok |-> FALSE] (JSONDecodeError)   *)
(* or [ok |-> TRUE, val |-> v] with v.kind "number" or "object"; for an    *)
(* object, v.keys are its keys, v.is_list tells whether the value of       *)
(* "recommendations" is a list, and v.recommendations is that list.        *)
(***************************************************************************)
ParseFail == [ok |-> FALSE]

(* the fields of one element object; s starts after "{", key is the key being read *)
RECURSIVE ParseFields(_, _, _)
ParseFields(s, obj, key) ==
    IF s = <<>> THEN ParseFail
    ELSE IF Head(s) = "}" THEN [ok |-> TRUE, val |-> obj, rest |-> Tail(s)]
    ELSE IF Head(s) \in KeyToks
         THEN ParseFields(Tail(s), (Head(s) :> <<>>) @@ obj, Head(s))
    ELSE IF Head(s) \in StrChars /\ key # ""
         THEN ParseFields(Tail(s), (key :> Append(obj[key], Head(s))) @@ obj, key)
    ELSE ParseFail

(* the elements of the recommendations array; s starts after "{R[" *)
RECURSIVE ParseElems(_, _)
ParseElems(s, acc) ==
    IF s = <<>> THEN ParseFail
    ELSE IF Head(s) \in Whitespace THEN ParseElems(Tail(s), acc)
    ELSE IF Head(s) = "]}" THEN [ok |-> TRUE, val |-> acc, rest |-> Tail(s)]
    ELSE IF Head(s) = "S" THEN ParseElems(Tail(s), Append(acc, [py |-> "str"]))
    ELSE IF Head(s) = "{"
         THEN LET e == ParseFields(Tail(s), EmptyDict, "")
              IN  IF e.ok THEN ParseElems(e.rest, Append(acc, e.val)) ELSE ParseFail
    ELSE ParseFail

JsonValue(kind, ks, is_list, recs) ==
    [kind |-> kind, keys |-> ks, is_list |-> is_list, recommendations |-> recs]

ParseValue(s) ==
    IF s = <<>> THEN ParseFail
    ELSE IF Head(s) = "0" THEN [ok |-> TRUE, val |-> JsonValue("number", {}, FALSE, <<>>), rest |-> Tail(s)]
    ELSE IF Head(s) = "{}"
         THEN [ok |-> TRUE, val |-> JsonValue("object", {}, FALSE, <<>>), rest |-> Tail(s)]
    ELSE IF Head(s) = "{R:0}"
         THEN [ok |-> TRUE,
               val |-> JsonValue("object", {"recommendations"}, FALSE, <<>>),
               rest |-> Tail(s)]
    ELSE IF Head(s) = "{R["
         THEN LET l == ParseElems(Tail(s), <<>>)
              IN  IF l.ok
                  THEN [ok |-> TRUE,
                        val |-> JsonValue("object", {"recommendations"}, TRUE, l.val),
                        rest |-> l.rest]
                  ELSE ParseFail
    ELSE ParseFail

(* json.loads(text): one value, blanks and newlines allowed around it *)
JsonLoads(s) ==
    LET v == ParseValue(LStrip(s))
    IN  IF v.ok /\ LStrip(v.rest) = <<>> THEN [ok |-> TRUE, val |-> v.val] ELSE ParseFail

(***************************************************************************)
(* The generated texts the provider is let to return.                      *)
(***************************************************************************)
MaxRecs == 2

(* the JSON text of one element of the recommendations array *)
ElemFull == <<"{", "title", "a", "description", "a", "reasoning", "b", "}">>
ElemTick == <<"{", "title", "b", "BQ", "a", "reasoning", "a", "}">>
ElemNoTitle == <<"{", "description", "b", "}">>
ElemString == <<"S">>
ElemEmptyTitle == <<"{", "title", "}">>
ElemTexts == {ElemFull, ElemTick, ElemNoTitle, ElemString}

RECURSIVE SeqsUpTo(_, _)
SeqsUpTo(S, n) ==
    IF n = 0 THEN {<<>>}
    ELSE LET shorter == SeqsUpTo(S, n - 1)
         IN  shorter \cup {Append(q, e) : q \in shorter, e \in S}

RECURSIVE Flatten(_)
Flatten(ss) == IF ss = <<>> THEN <<>> ELSE Head(ss) \o Flatten(Tail(ss))

(* {"recommendations":[e1, ..., en]} *)
RecsDoc(elems) == <<"{R[">> \o Flatten(elems) \o <<"]}">>

JsonDocs ==
    {RecsDoc(es) : es \in SeqsUpTo(ElemTexts, MaxRecs)} \cup {<<"{}">>, <<"{R:0}">>, <<"0">>}
        \cup {RecsDoc(<<ElemEmptyTitle>>)}

Fence == <<"BQ", "BQ", "BQ">>

(* the fenced form of a text: fence marker, optional json tag, newline, T, newline, fence marker *)
Fenced(t, tagged) ==
    Fence \o (IF tagged THEN <<"json">> ELSE <<>>) \o <<"\n">> \o t \o <<"\n">> \o Fence

IsFenced(t) ==
    /\ Len(t) >= 2 * Len(Fence)
    /\ SubSeq(t, 1, Len(Fence)) = Fence
    /\ SubSeq(t, Len(t) - Len(Fence) + 1, Len(t)) = Fence

(* the text between the fence lines of a fenced text *)
Unfenced(t) ==
    LET inner == SubSeq(t, Len(Fence) + 1, Len(t) - Len(Fence))
        body == IF inner # <<>> /\ Head(inner) = "json" THEN Tail(inner) ELSE inner
    IN  Strip(body)

FencedDocs == {RecsDoc(es) : es \in SeqsUpTo({ElemFull, ElemTick}, 1)}

ProseTexts == {<<"a">>, <<" ", "a", " ", "BQ", "b", "BQ", "\n">>}

Texts ==
    JsonDocs \cup ProseTexts
        \cup {Fenced(t, tagged) : t \in FencedDocs, tagged \in BOOLEAN}
        \cup {<<"\n">> \o RecsDoc(<<ElemFull>>) \o <<" ">>}

(***************************************************************************)
(* Python helpers                                                          *)
(***************************************************************************)
(* d.get(k, default) *)
DictGet(d, k, default) == IF k \in DOMAIN d THEN d[k] ELSE default

(* text[:n] *)
Prefix(t, n) == SubSeq(t, 1, IF Len(t) < n THEN Len(t) ELSE n)

IsDictAlways(e) == TRUE
(* line 147: recommendation.get exists when the element is a dict *)
IsDict(e) == "py" \notin DOMAIN e

(***************************************************************************)
(* Program constants                                                       *)
(***************************************************************************)
TMDB_IMAGE_BASE_URL == "https://image.tmdb.org/t/p/w500"
PLACEHOLDER_IMAGE_URL == <<"https://via.placeholder.com/500x750?text=Poster+Not+Available">>
NA == <<"N", "/", "A">>
max_retries_two == 1 + 1
max_retries == 1
RetryDelay == 2
MinCount == 1
MaxCount == 5

(***************************************************************************)
(* The metadata service: what one GET of get_tmdb_movie_details meets.     *)
(***************************************************************************)
ReleaseDate == <<"2", "0", "2", "0", "-", "0", "1", "-", "0", "1">>
PosterPath == <<"/p.jpg">>

(* the first element of data['results']: poster_path and release_date absent, null or set *)
MovieDatas ==
    {p @@ d : p \in {EmptyDict, "poster_path" :> NoneText, "poster_path" :> PosterPath},
              d \in {EmptyDict, "release_date" :> NoneText, "release_date" :> ReleaseDate}}

(* requests_json_error: whether response.json() of the installed requests raises a  *)
(* RequestException (2.27 and later) or a plain json.JSONDecodeError (earlier)      *)
TmdbOutcomes ==
    {[kind |-> k] : k \in {"network_error", "http_error", "never_answers",
                           "empty_object", "no_results_key", "zero_results"}}
        \cup {[kind |-> "body_not_json", requests_json_error |-> b] : b \in BOOLEAN}
        \cup {[kind |-> "result", movie_data |-> m] : m \in MovieDatas}

Return(v) == [kind |-> "return", val |-> v, printed |-> FALSE, st_error |-> FALSE]
Raise(e) == [kind |-> "raise", exc |-> e]

DetailsOfNoneWithoutPoster(movie_data) ==
    LET poster_path == DictGet(movie_data, "poster_path", NoneText)
        release_date == DictGet(movie_data, "release_date", NA)
    IN  IF release_date = NoneText THEN Raise("TypeError")
        ELSE IF poster_path = NoneText THEN Return(NoneDict)
        ELSE Return([poster_url |-> <<TMDB_IMAGE_BASE_URL>> \o poster_path,
                     year |-> Prefix(release_date, 4)])
(* lines 44-51: the details built from the first search result *)
DetailsOf(movie_data) ==
    LET poster_path == DictGet(movie_data, "poster_path", NoneText)
        release_date == DictGet(movie_data, "release_date", NA)
    IN  IF release_date = NoneText
        THEN Raise("TypeError")
        ELSE Return([poster_url |-> IF poster_path # NoneText
                                     THEN <<TMDB_IMAGE_BASE_URL>> \o poster_path
                                     ELSE NoneText,
                     year |-> Prefix(release_date, 4)])

(* what the GET met, as last_tmdb records it: a first result is told by its poster path *)
OutcomeTag(o) ==
    IF o.kind # "result" THEN o.kind
    ELSE IF DictGet(o.movie_data, "poster_path", NoneText) # NoneText
         THEN "result_with_poster"
         ELSE "result_without_poster"

(* lines 18-57: get_tmdb_movie_details, given whether the key is set and what the GET meets *)
get_tmdb_movie_details(key, o) ==
    IF ~key THEN [Return(NoneDict) EXCEPT !.st_error = TRUE]
    ELSE IF o.kind \in {"network_error", "http_error"}
         THEN [Return(NoneDict) EXCEPT !.printed = TRUE]
    ELSE IF o.kind = "never_answers" THEN [kind |-> "block"]
    ELSE IF o.kind = "body_not_json"
         THEN IF o.requests_json_error
              THEN [Return(NoneDict) EXCEPT !.printed = TRUE]
              ELSE Raise("JSONDecodeError")
    ELSE IF o.kind = "empty_object" THEN Return(NoneDict)
    ELSE IF o.kind = "no_results_key" THEN Raise("KeyError")
    ELSE IF o.kind = "zero_results" THEN Return(NoneDict)
    ELSE DetailsOf(o.movie_data)

(* lines 151-154: {**recommendation, "tmdb_details": tmdb_details or {}} *)
Merge(recommendation, tmdb_details) ==
    ("tmdb_details" :> (IF tmdb_details = NoneDict THEN EmptyDict ELSE tmdb_details))
        @@ recommendation

PrependFinal(final, rec) == <<rec>> \o final
(* line 155: final_recommendations.append(final_recommendation) *)
AppendFinal(final, rec) == Append(final, rec)

NextFinalDropNotFound(final, recommendation, tmdb_details) ==
    IF tmdb_details = NoneDict THEN final
    ELSE AppendFinal(final, Merge(recommendation, tmdb_details))
(* lines 151-155: the body of the for loop after the lookup *)
NextFinal(final, recommendation, tmdb_details) ==
    AppendFinal(final, Merge(recommendation, tmdb_details))

(***************************************************************************)
(* The render loop, lines 219-242: one row per recommendation.             *)
(***************************************************************************)
PosterShownAsIs(tmdb_details) == DictGet(tmdb_details, "poster_url", NoneText)
(* lines 226-230 *)
PosterShown(tmdb_details) ==
    LET poster_url == DictGet(tmdb_details, "poster_url", NoneText)
    IN  IF poster_url # NoneText /\ poster_url # <<>> THEN poster_url ELSE PLACEHOLDER_IMAGE_URL

Row(index, recommendation) ==
    LET tmdb_details == DictGet(recommendation, "tmdb_details", EmptyDict)
        year == DictGet(tmdb_details, "year", NA)
    IN  [rank |-> index + 1,
         title |-> DictGet(recommendation, "title", <<"Movie Title Not Found">>),
         poster |-> PosterShown(tmdb_details),
         year |-> year,
         year_display |-> IF year # NA THEN <<" (">> \o year \o <<")">> ELSE <<>>,
         description |-> DictGet(recommendation, "description", <<"Description not available.">>),
         reasoning |-> DictGet(recommendation, "reasoning", <<"Reasoning not available.">>)]

Rows(recommendations) == [i \in 1..Len(recommendations) |-> Row(i - 1, recommendations[i])]

(***************************************************************************)
(* State.  The program's variables keep their names.  Ghost variables      *)
(* record what the run did: attempts (one entry per requests.post),        *)
(* sleeps (one entry per time.sleep), tmdb_calls (one entry per call of    *)
(* get_tmdb_movie_details), last_tmdb (what the latest GET met), content   *)
(* (the generated text as the provider sent it), failure (the return site  *)
(* of a failed run), st_errors and st_code (what st.error and st.code      *)
(* showed), exception (an exception no handler caught).                    *)
(***************************************************************************)
VARIABLES DEEPSEEK_API_KEY, TMDB_API_KEY, pc, num_recommendations, retry_count,
          response, api_content, ranked_recommendations, final_recommendations, idx,
          result, page, rows,
          attempts, sleeps, tmdb_calls, last_tmdb, content, failure, st_errors, st_code,
          exception

vars == <<DEEPSEEK_API_KEY, TMDB_API_KEY, pc, num_recommendations, retry_count,
          response, api_content, ranked_recommendations, final_recommendations, idx,
          result, page, rows,
          attempts, sleeps, tmdb_calls, last_tmdb, content, failure, st_errors, st_code,
          exception>>

keys == <<DEEPSEEK_API_KEY, TMDB_API_KEY>>
locals == <<retry_count, response, api_content, ranked_recommendations,
            final_recommendations, idx>>
ui == <<page, rows>>
enrich_log == <<tmdb_calls, last_tmdb>>

Unbound == <<"unbound">>
ResponseText == <<"response.text">>
NoException == [exc |-> "", in |-> ""]
(* HTTP statuses that raise_for_status turns into an HTTPError *)
ErrorStatuses == {400, 429, 500}
(* response: 0 while the name is unbound, else the status of the response it holds *)
NoResponse == 0

Init ==
    /\ DEEPSEEK_API_KEY \in BOOLEAN
    /\ TMDB_API_KEY \in BOOLEAN
    /\ pc = "idle"
    /\ num_recommendations = 0
    /\ retry_count = 0
    /\ response = NoResponse
    /\ api_content = Unbound
    /\ ranked_recommendations = <<>>
    /\ final_recommendations = <<>>
    /\ idx = 0
    /\ result = [kind |-> "unset"]
    /\ page = "form"
    /\ rows = <<>>
    /\ attempts = <<>>
    /\ sleeps = <<>>
    /\ tmdb_calls = <<>>
    /\ last_tmdb = ""
    /\ content = NoneText
    /\ failure = ""
    /\ st_errors = {}
    /\ st_code = NoneText
    /\ exception = NoException

(* return None at one of the return sites of get_movie_recommendations *)
ReturnNone(kind, errors) ==
    /\ pc' = "returned"
    /\ result' = [kind |-> "None"]
    /\ failure' = kind
    /\ st_errors' = st_errors \cup errors

(* an exception that no handler of the program catches *)
Uncaught(exc, where) ==
    /\ pc' = "crashed"
    /\ exception' = [exc |-> exc, in |-> where]
    /\ UNCHANGED <<result, failure>>

ApiKeyCheckSkipped == FALSE
(* line 74: if not DEEPSEEK_API_KEY *)
ApiKeyMissing == ~DEEPSEEK_API_KEY

(* lines 210-215 and 74-106: the button is clicked; the form's inputs may be empty *)
Click ==
    /\ pc = "idle"
    /\ \E inputs_given \in BOOLEAN, n \in MinCount..MaxCount :
         /\ num_recommendations' = n
         /\ IF ~inputs_given
            THEN /\ pc' = "shown"
                 /\ page' = "warning"
                 /\ UNCHANGED <<result, failure, st_errors>>
            ELSE /\ page' = page
                 /\ IF ApiKeyMissing
                    THEN ReturnNone("ConfigurationError", {"deepseek_key"})
                    ELSE /\ pc' = "request"
                         /\ UNCHANGED <<result, failure, st_errors>>
    /\ UNCHANGED <<keys, locals, rows, attempts, sleeps, enrich_log, content, st_code, exception>>

RetryTailSleepAlways ==
    /\ retry_count' = retry_count + 1
    /\ sleeps' = Append(sleeps, RetryDelay)
    /\ pc' = "request"
(* lines 196-199: the end of a loop iteration that neither returned nor raised *)
RetryTail ==
    /\ retry_count' = retry_count + 1
    /\ sleeps' = IF retry_count + 1 <= max_retries THEN Append(sleeps, RetryDelay) ELSE sleeps
    /\ pc' = "request"

InLoopAfterEnrichment == pc \in {"request", "enrich"} /\ retry_count <= max_retries
(* line 108: while retry_count <= max_retries, reached only from the loop itself *)
InLoop == pc = "request" /\ retry_count <= max_retries

(* line 111 raises (connection error, timeout): response is not assigned; lines 187-193 *)
PostRaises ==
    /\ InLoop
    /\ attempts' = Append(attempts, [kind |-> "post_raised", status |-> NoResponse])
    /\ st_errors' = st_errors \cup {"request_failed"}
    /\ IF response = NoResponse
       THEN /\ Uncaught("UnboundLocalError", "get_movie_recommendations")
            /\ UNCHANGED <<retry_count, sleeps>>
       ELSE /\ RetryTail
            /\ UNCHANGED <<result, failure, exception>>
    /\ UNCHANGED <<keys, num_recommendations, response, api_content, ranked_recommendations,
                   final_recommendations, idx, ui, enrich_log, content, st_code>>

(* line 112 raises HTTPError for an error status; lines 187-193 *)
PostHttpError ==
    /\ InLoop
    /\ \E status \in ErrorStatuses :
         /\ response' = status
         /\ attempts' = Append(attempts, [kind |-> "http_error", status |-> status])
    /\ st_errors' = st_errors \cup {"request_failed"}
    /\ RetryTail
    /\ UNCHANGED <<keys, num_recommendations, api_content, ranked_recommendations,
                   final_recommendations, idx, result, ui, enrich_log, content, failure,
                   st_code, exception>>

(* line 122 raises: the body of a 200 response is not JSON; lines 181-185 *)
PostBodyNotJson ==
    /\ InLoop
    /\ response' = 200
    /\ api_content' = ResponseText
    /\ attempts' = Append(attempts, [kind |-> "body_not_json", status |-> 200])
    /\ st_errors' = st_errors \cup {"body_not_json"}
    /\ st_code' = ResponseText
    /\ RetryTail
    /\ UNCHANGED <<keys, num_recommendations, ranked_recommendations, final_recommendations,
                   idx, result, ui, enrich_log, content, failure, exception>>

(* lines 129-134 and 171-175: a JSON body without usable generated text *)
PostNoContent ==
    /\ InLoop
    /\ response' = 200
    /\ \E kind \in {"no_choices", "bad_envelope", "empty_content"} :
         /\ api_content' = IF kind = "empty_content" THEN <<>> ELSE ResponseText
         /\ attempts' = Append(attempts, [kind |-> kind, status |-> 200])
         /\ CASE kind = "no_choices" ->
                   ReturnNone("NoChoices", {"no_choices"}) /\ UNCHANGED exception
              [] kind = "empty_content" ->
                   ReturnNone("EmptyContent", {"empty_content"}) /\ UNCHANGED exception
              [] kind = "bad_envelope" ->
                   (* json_response is no dict, or choices[0] has no message.content *)
                   Uncaught("TypeError", "get_movie_recommendations") /\ UNCHANGED st_errors
    /\ UNCHANGED <<keys, num_recommendations, retry_count, ranked_recommendations,
                   final_recommendations, idx, ui, sleeps, enrich_log, content, st_code>>

(* lines 130-161 up to the for loop: generated text received, cleaned and parsed *)
PostContent ==
    /\ InLoop
    /\ response' = 200
    /\ \E text \in Texts :
         LET cleaned == CleanUp(text)
             parsed == JsonLoads(cleaned)
         IN  /\ content' = text
             /\ api_content' = cleaned
             /\ attempts' = Append(attempts, [kind |-> "content", status |-> 200])
             /\ IF ~parsed.ok
                THEN (* lines 163-168 *)
                     /\ ReturnNone("MalformedJSON", {"content_not_json"})
                     /\ st_code' = cleaned
                     /\ UNCHANGED <<ranked_recommendations, final_recommendations, exception>>
                ELSE IF parsed.val.kind # "object"
                THEN (* line 141: 'recommendations' in <number> *)
                     /\ Uncaught("TypeError", "get_movie_recommendations")
                     /\ UNCHANGED <<ranked_recommendations, final_recommendations,
                                    st_errors, st_code>>
                ELSE IF ~("recommendations" \in parsed.val.keys /\ parsed.val.is_list)
                THEN (* lines 158-161 *)
                     /\ ReturnNone("SchemaMismatch", {"no_recommendations"})
                     /\ st_code' = cleaned
                     /\ UNCHANGED <<ranked_recommendations, final_recommendations, exception>>
                ELSE (* lines 142-146, and line 157 when the list is empty *)
                     /\ ranked_recommendations' = parsed.val.recommendations
                     /\ final_recommendations' = <<>>
                     /\ IF parsed.val.recommendations = <<>>
                        THEN pc' = "returned" /\ result' = [kind |-> "list", val |-> <<>>]
                        ELSE pc' = "enrich" /\ result' = result
                     /\ UNCHANGED <<failure, st_errors, st_code, exception>>
    /\ idx' = 0
    /\ UNCHANGED <<keys, num_recommendations, retry_count, ui, sleeps, enrich_log>>

(* line 108 false, line 201: the loop ran out of attempts *)
Exhausted ==
    /\ pc = "request"
    /\ retry_count > max_retries
    /\ ReturnNone("TransportExhausted", {})
    /\ UNCHANGED <<keys, num_recommendations, locals, ui, attempts, sleeps, enrich_log,
                   content, st_code, exception>>

(* lines 146-157: one iteration of the for loop, with its call of get_tmdb_movie_details *)
Lookup ==
    /\ pc = "enrich"
    /\ LET recommendation == ranked_recommendations[idx + 1]
       IN  IF ~IsDict(recommendation)
           THEN (* line 147: a str has no get *)
                /\ Uncaught("AttributeError", "get_movie_recommendations")
                /\ UNCHANGED <<final_recommendations, idx, enrich_log, st_errors, st_code>>
           ELSE \E o \in TmdbOutcomes :
                  LET movie_title == DictGet(recommendation, "title", NoneText)
                      r == get_tmdb_movie_details(TMDB_API_KEY, o)
                  IN  /\ tmdb_calls' = Append(tmdb_calls, movie_title)
                      /\ last_tmdb' = IF TMDB_API_KEY THEN OutcomeTag(o) ELSE "no_key"
                      /\ CASE r.kind = "block" ->
                                /\ pc' = "blocked"
                                /\ UNCHANGED <<final_recommendations, idx, result, failure,
                                               st_errors, st_code, exception>>
                           [] r.kind = "raise" /\ r.exc = "JSONDecodeError" ->
                                (* caught by the except of line 163 *)
                                /\ ReturnNone("MalformedJSON", {"content_not_json"})
                                /\ st_code' = api_content
                                /\ UNCHANGED <<final_recommendations, idx, exception>>
                           [] r.kind = "raise" /\ r.exc # "JSONDecodeError" ->
                                /\ Uncaught(r.exc, "get_tmdb_movie_details")
                                /\ UNCHANGED <<final_recommendations, idx, st_errors, st_code>>
                           [] r.kind = "return" ->
                                /\ final_recommendations' =
                                       NextFinal(final_recommendations, recommendation, r.val)
                                /\ idx' = idx + 1
                                /\ st_errors' = IF r.st_error THEN st_errors \cup {"tmdb_key"}
                                                ELSE st_errors
                                /\ IF idx + 1 = Len(ranked_recommendations)
                                   THEN /\ pc' = "returned"
                                        /\ result' = [kind |-> "list",
                                                      val |-> final_recommendations']
                                   ELSE pc' = "enrich" /\ result' = result
                                /\ UNCHANGED <<failure, st_code, exception>>
    /\ UNCHANGED <<keys, num_recommendations, retry_count, response, api_content,
                   ranked_recommendations, ui, attempts, sleeps, content>>

IsNotNone(r) == r.kind = "list"
(* line 217: if recommendations *)
Truthy(r) == r.kind = "list" /\ r.val # <<>>

(* lines 217-244: the caller shows the ranked rows, or the failure message *)
Render ==
    /\ pc = "returned"
    /\ pc' = "shown"
    /\ IF Truthy(result)
       THEN /\ page' = "success"
            /\ rows' = Rows(result.val)
            /\ st_errors' = st_errors
       ELSE /\ page' = "failure"
            /\ rows' = rows
            /\ st_errors' = st_errors \cup {"failed"}
    /\ UNCHANGED <<keys, num_recommendations, locals, result, attempts, sleeps, enrich_log,
                   content, failure, st_code, exception>>

Next ==
    \/ Click
    \/ PostRaises
    \/ PostHttpError
    \/ PostBodyNotJson
    \/ PostNoContent
    \/ PostContent
    \/ Exhausted
    \/ Lookup
    \/ Render

Spec == Init /\ [][Next]_vars

(***************************************************************************)
(* Properties                                                              *)
(***************************************************************************)
TransportKinds == {"post_raised", "http_error"}
RetriedKinds == TransportKinds \cup {"body_not_json"}

(* the cleaned text parses to an object with a recommendations list *)
WellFormed(text) ==
    LET parsed == JsonLoads(CleanUp(text))
    IN  parsed.ok /\ parsed.val.kind = "object" /\ parsed.val.is_list

LastAttempt == attempts[Len(attempts)]

C2_TransportFailureRetried ==
    \A i \in 1..Len(attempts) :
        (attempts[i].kind \in TransportKinds /\ i <= max_retries) =>
            /\ exception = NoException
            /\ i = Len(attempts) => pc = "request"

(* C3: an attempt whose response was received and is unusable (body not JSON,  *)
(* no choices, empty content, generated text not JSON, no recommendations      *)
(* list) is the last attempt of its run: no provider call and no sleep follow. *)
C3_UnusableNotRetried ==
    \A i \in 1..Len(attempts) :
        ( \/ attempts[i].kind \in {"body_not_json", "no_choices", "empty_content"}
          \/ attempts[i].kind = "content" /\ ~WellFormed(content) ) =>
            /\ i = Len(attempts)
            /\ pc # "request"
            /\ Len(sleeps) <= i - 1

(* C4: the record at position i of the list being built, of the list returned  *)
(* and of the rows shown carries the title, description and reasoning of the   *)
(* element at position i of the recommendations list; the rank shown is i.     *)
C4_OrderPreserved ==
    /\ Len(final_recommendations) <= Len(ranked_recommendations)
    /\ \A i \in 1..Len(final_recommendations) : \A k \in KeyToks :
         DictGet(final_recommendations[i], k, NoneText)
             = DictGet(ranked_recommendations[i], k, NoneText)
    /\ result.kind = "list" =>
         /\ result.val = final_recommendations
         /\ Len(result.val) = Len(ranked_recommendations)
    /\ page = "success" =>
         /\ Len(rows) = Len(ranked_recommendations)
         /\ \A i \in 1..Len(rows) :
              /\ rows[i].rank = i
              /\ rows[i].title
                   = DictGet(ranked_recommendations[i], "title", <<"Movie Title Not Found">>)
              /\ rows[i].description
                   = DictGet(ranked_recommendations[i], "description",
                             <<"Description not available.">>)
              /\ rows[i].reasoning
                   = DictGet(ranked_recommendations[i], "reasoning",
                             <<"Reasoning not available.">>)

C4_Witness ==
    /\ page = "success"
    /\ Len(rows) = 2
    /\ rows[1].title # rows[2].title
    /\ result.val[1].tmdb_details = EmptyDict
    /\ result.val[2].tmdb_details # EmptyDict

NoMetadataKinds == {"no_key", "network_error", "http_error", "body_not_json",
                    "empty_object", "zero_results"}

(* C5: get_tmdb_movie_details is called once per element, in order, never more *)
(* often than there are elements; a returned list has one record per element,  *)
(* each with a tmdb_details entry; and a lookup that returned no metadata left *)
(* a record with tmdb_details = {} at the end of the list.                     *)
C5_EnrichmentTotal ==
    /\ Len(tmdb_calls) <= Len(ranked_recommendations)
    /\ \A i \in 1..Len(tmdb_calls) :
         tmdb_calls[i] = DictGet(ranked_recommendations[i], "title", NoneText)
    /\ result.kind = "list" =>
         /\ Len(tmdb_calls) = Len(ranked_recommendations)
         /\ Len(result.val) = Len(ranked_recommendations)
         /\ \A i \in 1..Len(result.val) : "tmdb_details" \in DOMAIN result.val[i]
    /\ (last_tmdb \in NoMetadataKinds /\ failure = "") =>
         /\ Len(final_recommendations) = Len(tmdb_calls)
         /\ final_recommendations[Len(final_recommendations)].tmdb_details = EmptyDict

C5_Witness ==
    /\ pc = "returned"
    /\ result.kind = "list"
    /\ Len(result.val) = 2
    /\ Len(tmdb_calls) = 2
    /\ last_tmdb = "network_error"
    /\ result.val[1].tmdb_details # EmptyDict
    /\ result.val[2].tmdb_details = EmptyDict

(* C6: the returned list is never longer than the count asked for. *)
C6_AtMostCount == result.kind = "list" => Len(result.val) <= num_recommendations

(* C7: no exception leaves get_tmdb_movie_details, so no run fails or crashes  *)
(* once the lookups have begun.                                                *)
C7_EnricherNeverRaises ==
    /\ exception.in # "get_tmdb_movie_details"
    /\ failure # "" => tmdb_calls = <<>>

(* C8: a lookup whose search returned zero results does not fail the run: it   *)
(* leaves a record with empty metadata; when the rows are shown, every record  *)
(* with empty metadata has the placeholder image as poster and 'N/A' as year,  *)
(* and a run whose last lookup returned zero results is shown as a success.    *)
C8_ZeroResultsPlaceholder ==
    /\ last_tmdb = "zero_results" =>
         /\ exception.in # "get_tmdb_movie_details"
         /\ failure = ""
         /\ pc # "blocked"
         /\ Len(final_recommendations) = Len(tmdb_calls)
         /\ final_recommendations[Len(final_recommendations)].tmdb_details = EmptyDict
    /\ page = "success" =>
         \A i \in 1..Len(rows) :
             result.val[i].tmdb_details = EmptyDict =>
                 rows[i].poster = PLACEHOLDER_IMAGE_URL /\ rows[i].year = NA
    /\ (last_tmdb = "zero_results" /\ pc = "shown" /\ exception = NoException) =>
         /\ page = "success"
         /\ rows[Len(rows)].poster = PLACEHOLDER_IMAGE_URL
         /\ rows[Len(rows)].year = NA

C8_Witness ==
    /\ pc = "shown"
    /\ page = "success"
    /\ last_tmdb = "zero_results"
    /\ Len(rows) = 2
    /\ rows[2].poster = PLACEHOLDER_IMAGE_URL
    /\ rows[2].year = NA
    /\ rows[1].poster # PLACEHOLDER_IMAGE_URL

(* C9: when json.loads of the generated text fails, the text shown with the    *)
(* failure is the generated text as the provider sent it.                      *)
C9_RawTextPreserved ==
    (failure = "MalformedJSON" /\ tmdb_calls = <<>>) => st_code = content

(* C10: the clean-up leaves a text that is not fenced as it is (up to blanks   *)
(* around it), and the cleaned fenced form of T parses to what T parses to.    *)
C10_FenceStripping ==
    content # NoneText =>
        IF IsFenced(content)
        THEN JsonLoads(api_content) = JsonLoads(Unfenced(content))
        ELSE api_content = Strip(content)

(* the generated text, cleaned, parses as JSON *)
ContentParses == content # NoneText /\ JsonLoads(api_content).ok

LastFinal == final_recommendations[Len(final_recommendations)]

(* C11: when the generated text parses as JSON and the value has no            *)
(* recommendations key, or that key's value is no list, the run returns None   *)
(* with a SchemaMismatch failure that shows the text, raises nothing and makes *)
(* no lookup.                                                                  *)
C11_SchemaMismatchReported ==
    (ContentParses /\ ~WellFormed(content)) =>
        /\ pc \in {"returned", "shown"}
        /\ result = [kind |-> "None"]
        /\ failure = "SchemaMismatch"
        /\ st_code = api_content
        /\ exception = NoException
        /\ tmdb_calls = <<>>

GenerationFailures ==
    {"ConfigurationError", "NoChoices", "EmptyContent", "SchemaMismatch", "TransportExhausted"}

PcRank(p) ==
    CASE p = "idle" -> 0
      [] p = "request" -> 1
      [] p = "enrich" -> 2
      [] p = "returned" -> 3
      [] OTHER -> 4

C13_NoKeyNoCalls ==
    ~DEEPSEEK_API_KEY =>
        /\ attempts = <<>>
        /\ sleeps = <<>>
        /\ tmdb_calls = <<>>
        /\ pc \in {"idle", "returned", "shown"}
        /\ (pc # "idle" /\ page # "warning") =>
             /\ failure = "ConfigurationError"
             /\ result = [kind |-> "None"]
             /\ "deepseek_key" \in st_errors
        /\ (pc = "shown" /\ page # "warning") =>
             page = "failure" /\ "failed" \in st_errors

C13_Witness ==
    /\ ~DEEPSEEK_API_KEY
    /\ pc = "shown"
    /\ page = "failure"
    /\ st_errors = {"deepseek_key", "failed"}

C15_ClientErrorNotRetried ==
    \A i \in 1..Len(attempts) :
        ( /\ attempts[i].kind = "http_error"
          /\ attempts[i].status \in 400..499
          /\ attempts[i].status # 429 ) =>
            i = Len(attempts) /\ pc # "request"

LookupReturned == exception.in # "get_tmdb_movie_details" /\ failure = "" /\ pc # "blocked"

C18_NoEnricherErrorShown == "tmdb_key" \notin st_errors

(* C19: a run that has not ended can take a step: no call blocks for ever.     *)
C19_RunTerminates == pc \in {"shown", "crashed"} \/ ENABLED Next

(* C20: an empty recommendations list is returned without any lookup and is    *)
(* shown as a failure: the failure message and no rows; a page of ranked       *)
(* results has at least one row.                                               *)
C20_EmptyListIsFailure ==
    /\ (result.kind = "list" /\ result.val = <<>>) =>
         /\ tmdb_calls = <<>>
         /\ exception = NoException
         /\ pc = "shown" => (page = "failure" /\ rows = <<>> /\ "failed" \in st_errors)
    /\ page = "success" => Len(rows) >= 1

C20_Witness ==
    /\ pc = "shown"
    /\ result = [kind |-> "list", val |-> <<>>]
    /\ page = "failure"
    /\ attempts # <<>>
====
